---- MODULE Spec2Model ----
(***************************************************************************)
(* State-machine model of downloader.py (imgur album/account downloader).  *)
(* One process run is either "main with album ids" (lines 149-151) or      *)
(* "main without arguments" (line 154, download_account).  The local disk  *)
(* (images/<folder>/<basename>) survives from one process run to the next; *)
(* everything else is reset when a new process starts.                     *)
(***************************************************************************)
EXTENDS Integers, Sequences, FiniteSets, TLC

(***************************************************************************)
(* Bounds of the model.                                                    *)
(***************************************************************************)
\* longest album (number of image descriptors returned by get_album)
MaxItems == 2
\* longest command line (number of album ids in sys.argv[1:])
MaxArgs == 2
\* longest account listing returned by get_account_albums
MaxAlbums == 2

\* res.iter_content(100000): the largest chunk
ChunkSize == 100000

(***************************************************************************)
(* URLs are sequences of tokens, so that str.replace and os.path.basename  *)
(* are computed on the text and not assumed.                               *)
(***************************************************************************)
HostA == <<"http:", "//", "i.imgur.com", "/", "a.jpg">>
HostBGif == <<"https:", "//", "i.imgur.com", "/", "b.gif">>
HostBMp4 == <<"http:", "//", "i.imgur.com", "/", "b.mp4">>

\* imgurpython Image objects: `mp4` exists only for large GIFs
ImageUniverse ==
    { [link |-> HostA, has_mp4 |-> FALSE, mp4 |-> <<>>],
      [link |-> HostBGif, has_mp4 |-> TRUE, mp4 |-> HostBMp4] }

\* a link of another host whose query holds a second 'http:' and whose
\* basename is that of HostA
ProxyA == <<"https:", "//", "imgur.com", "/", "r", "?", "u=", "http:", "//", "x", "/", "a.jpg">>

\* the images above and one that links through ProxyA
WideUniverse ==
    ImageUniverse \cup { [link |-> ProxyA, has_mp4 |-> FALSE, mp4 |-> <<>>] }

\* album ids / account names: one namespace of strings (line 154)
Names == {"a1", "a2"}

SeqsUpTo(S, n) == UNION { [1..k -> S] : k \in 0..n }

Range(s) == { s[i] : i \in DOMAIN s }

\* link.replace('http:', 'https:') replaces every occurrence
ReplaceHttp(link) == [i \in DOMAIN link |-> IF link[i] = "http:" THEN "https:" ELSE link[i]]

\* a resolver that always takes the generic link
GenericLink(image) == image.link

\* image.mp4 if hasattr(image, 'mp4') else image.link
PreferredLink(image) == IF image.has_mp4 THEN image.mp4 ELSE image.link

\* __get_image_links
GetImageLinks(imgs) == [i \in DOMAIN imgs |-> ReplaceHttp(PreferredLink(imgs[i]))]

\* index of the last "/" token of a link, 0 when there is none
LastSlash(link) ==
    LET S == { i \in DOMAIN link : link[i] = "/" }
    IN  IF S = {} THEN 0 ELSE CHOOSE i \in S : \A j \in S : j <= i

\* os.path.basename: everything after the last "/"
Basename(link) == SubSeq(link, LastSlash(link) + 1, Len(link))

AllLinks ==
    UNION { {im.link, ReplaceHttp(im.link)} \cup
            (IF im.has_mp4 THEN {im.mp4, ReplaceHttp(im.mp4)} ELSE {}) : im \in WideUniverse }

Basenames == { Basename(l) : l \in AllLinks }

\* the links __get_image_links can hand to the fetch loop
EffectiveLinks == { ReplaceHttp(PreferredLink(im)) : im \in WideUniverse }

\* what the remote does with a GET of a link: "ok" serves the whole body,
\* "refused" fails before any byte (connection error or error status),
\* "cut" breaks the stream before the body is complete, "any" is free to
\* do any of these at each request
Fates == {"ok", "refused", "cut"}

\* the remote: the body served for a link, as the lengths of the chunks
\* iter_content yields (every chunk but the last has ChunkSize bytes)
Body(link) ==
    IF Basename(link) = <<"b.mp4">> THEN <<70000>>
    ELSE <<ChunkSize, 40000>>

\* a path of the local disk is "absent", or a regular file that is either
\* "partial" (opened 'wb', body not fully written) or "complete"
FileStates == {"absent", "partial", "complete"}

\* Result = namedtuple('Result', 'downloaded, failed, skipped, total_bytes');
\* kind tells a Result from Python's None and from "nothing returned yet"
Result(d, f, s, b) ==
    [kind |-> "Result", downloaded |-> d, failed |-> f, skipped |-> s, total_bytes |-> b]
NoneValue == [kind |-> "None", downloaded |-> 0, failed |-> 0, skipped |-> 0, total_bytes |-> 0]
Unset == [kind |-> "unset", downloaded |-> 0, failed |-> 0, skipped |-> 0, total_bytes |-> 0]

NoExc == [kind |-> "none", site |-> "none"]

VARIABLES
    images,          \* remote: album.images served by get_album
    images2,         \* remote: album.images of album "a2" (an ordering of images)
    fate,            \* remote: fate[link]: what a GET of the link does
    torn,            \* history: <<folder, basename>> of the file that was being
                     \* written when a process was last terminated, or <<>>
    fs,              \* disk: fs[folder][basename] \in FileStates
    dirs,            \* disk: folders under images/ that exist
    pc,              \* control position of the process
    exc,             \* the exception that ended the process, if any
    args,            \* main: sys.argv[1:], until set(args) is iterated
    pending,         \* main: ids of set(args) not iterated yet, in iteration order
    account_name,    \* download_account: its argument
    albums,          \* download_account: the listing
    pi,              \* download_account: index of the next album to prompt for
    answer,          \* download_account: prompt, the latest answer read
    to_download,     \* download_account: albums answered 'y'
    di,              \* download_account: index of the next album to download
    acc_downloaded, acc_failed, acc_skipped, acc_bytes, \* download_account: totals
    acct_ret,        \* value returned by download_account
    album_id,        \* download_album: its argument
    caller,          \* download_album: who called it
    ret,             \* value returned by download_album
    links,           \* __save_images: images
    idx,             \* __save_images: index of the item the loop is at
    num_downloaded, num_failed, num_skipped, total_bytes, \* __save_images: counters
    byte_size,       \* __save_images: bytes written for the item in progress
    chunk_no,        \* response: index of the next chunk iter_content yields
    calls,           \* history: arguments of the download_album calls of this process
    album_results,   \* history: Results handed to the account loop
    gets,            \* history: requests.get calls of the current fetch loop
    clean,           \* history: clean[folder]: last finished loop there had failed = 0
    prev_clean,      \* history: clean[folder] when the current loop started
    client_error,    \* history: the error the latest call of the remote client raised
    list_error,      \* history: the error get_account_albums raised in this process
    fallbacks        \* history: number of account-to-album fallbacks of this process

world == <<images, images2, fate, torn>>
disk == <<fs, dirs>>
mainv == <<args, pending>>
acctv == <<account_name, albums, pi, answer, to_download, di,
           acc_downloaded, acc_failed, acc_skipped, acc_bytes, acct_ret, list_error>>
savev == <<links, idx, num_downloaded, num_failed, num_skipped, total_bytes,
           byte_size, chunk_no>>
loophist == <<gets, prev_clean>>
vars == <<images, images2, fate, torn, fs, dirs, pc, exc, args, pending,
          account_name, albums, pi, answer,
          to_download, di, acc_downloaded, acc_failed, acc_skipped, acc_bytes, acct_ret,
          album_id, caller, ret, links, idx, num_downloaded, num_failed, num_skipped,
          total_bytes, byte_size, chunk_no, calls, album_results, gets,
          clean, prev_clean, client_error, list_error, fallbacks>>

(***************************************************************************)
(* Exceptions.  The remote client raises ImgurClientError for every error  *)
(* answer of the API, whatever its status ("NotFound": 404, "AuthError":   *)
(* 401/403), and ImgurClientRateLimitError, which is no ImgurClientError.  *)
(***************************************************************************)
ClientErrors == {"NotFound", "AuthError", "RateLimit"}
\* requests.get / raise_for_status / open
EarlyItemErrors == {"ConnectionError", "HTTPError", "OSError"}
\* iter_content / file.write
StreamErrors == {"ChunkedEncodingError", "OSError"}

\* isinstance(e, ImgurClientError)
IsImgurClientError(e) == e \in {"NotFound", "AuthError"}

\* isinstance(e, Exception)
IsException(e) == e \in ClientErrors \cup EarlyItemErrors \cup StreamErrors \cup {"AttributeError"}

\* a handler that lets the I/O errors of open and write through
CatchesRequestErrorsOnly(e) == IsException(e) /\ e # "OSError"

\* `except Exception as ex` of the fetch loop
SaveCatches(e) == IsException(e)

\* a handler of download_album that also takes the errors of the disk
CatchesDiskErrorsToo(e) == IsImgurClientError(e) \/ e = "OSError"

\* `except ImgurClientError` of download_album
AlbumCatches(e) == IsImgurClientError(e)

\* a handler that catches whatever the body of download_account raises
CatchesEveryException(e) == IsException(e)

\* `except ImgurClientError` of download_account
AccountCatches(e) == IsImgurClientError(e)

\* the album id the fallback retries with
FallbackId(name) == name

\* '{} - {} - {}'.format(author, album.id, title): one folder per album id
FolderName(id) == id

\* a skip test that takes only completely written files for copies
IsCompleteFile(folder, local) == fs[folder][local] = "complete"

\* a skip test that never finds a file
NeverFile(folder, local) == FALSE

\* os.path.isfile(local_path)
IsFile(folder, local) == fs[folder][local] # "absent"

\* a skip that is not counted
SkipNotCounted(s) == s

\* num_skipped += 1
CountSkipped(s) == s + 1

\* a failure that is not counted
FailureNotCounted(f) == f

\* num_failed += 1
CountFailed(f) == f + 1

\* num_downloaded += 1
CountDownloaded(d) == d + 1

\* a total that keeps only the size of the latest download
KeepLastSize(total, size) == size

\* total_bytes += byte_size
AddBytes(total, size) == total + size

\* return Result(num_downloaded, num_downloaded, num_skipped, total_bytes)
AccountResult == Result(acc_downloaded, acc_downloaded, acc_skipped, acc_bytes)

\* str.lower(prompt)
Lower(s) == IF s = "Y" THEN "y" ELSE IF s = "N" THEN "n" ELSE s

Answers == {"y", "Y", "n", ""}

\* listings of an account: its public albums, each once
Listings == { s \in SeqsUpTo(Names, MaxAlbums) : \A i, j \in DOMAIN s : i # j => s[i] # s[j] }

\* sys.argv[1:] when it is not empty
ArgLists == SeqsUpTo(Names, MaxArgs) \ {<<>>}

\* set(args)
ArgSet(argv) == Range(argv)

\* a for loop over the list itself
ListOrder(argv) == {argv}

\* for arg in set(args): the orders in which the set can be iterated
IterationOrders(argv) ==
    { s \in SeqsUpTo(Names, Len(argv)) :
        /\ Range(s) = ArgSet(argv)
        /\ \A i, j \in DOMAIN s : i # j => s[i] # s[j] }

NoFiles == [b \in Basenames |-> "absent"]

\* the disk before the first run and the state of a process not started
LocalInit ==
    /\ fs = [n \in Names |-> NoFiles]
    /\ dirs = {}
    /\ pc = "idle"
    /\ exc = NoExc
    /\ args = <<>>
    /\ pending = <<>>
    /\ account_name = ""
    /\ albums = <<>>
    /\ pi = 1
    /\ answer = ""
    /\ to_download = <<>>
    /\ di = 1
    /\ acc_downloaded = 0 /\ acc_failed = 0 /\ acc_skipped = 0 /\ acc_bytes = 0
    /\ acct_ret = Unset
    /\ album_id = ""
    /\ caller = "none"
    /\ ret = Unset
    /\ links = <<>>
    /\ idx = 1
    /\ num_downloaded = 0 /\ num_failed = 0 /\ num_skipped = 0 /\ total_bytes = 0
    /\ byte_size = 0
    /\ chunk_no = 1
    /\ calls = <<>>
    /\ album_results = <<>>
    /\ gets = 0
    /\ clean = [n \in Names |-> FALSE]
    /\ prev_clean = FALSE
    /\ client_error = "none"
    /\ list_error = "none"
    /\ fallbacks = 0

Init ==
    /\ images \in SeqsUpTo(ImageUniverse, MaxItems)
    /\ images2 = images
    /\ fate = [l \in EffectiveLinks |-> "any"]
    /\ torn = <<>>
    /\ LocalInit

\* locals of __save_images, as they are before the function is entered
SaveReset ==
    /\ links' = <<>>
    /\ idx' = 1
    /\ num_downloaded' = 0 /\ num_failed' = 0 /\ num_skipped' = 0 /\ total_bytes' = 0
    /\ byte_size' = 0
    /\ chunk_no' = 1
    /\ gets' = 0
    /\ prev_clean' = FALSE

\* locals of download_album, as they are before the function is entered
AlbumReset ==
    /\ album_id' = ""
    /\ caller' = "none"
    /\ ret' = Unset

\* locals of download_account, as they are before the function is entered
AcctReset ==
    /\ albums' = <<>>
    /\ pi' = 1
    /\ answer' = ""
    /\ to_download' = <<>>
    /\ di' = 1
    /\ acc_downloaded' = 0 /\ acc_failed' = 0 /\ acc_skipped' = 0 /\ acc_bytes' = 0
    /\ acct_ret' = Unset
    /\ album_results' = <<>>
    /\ list_error' = "none"

(***************************************************************************)
(* Transfers of control.                                                   *)
(***************************************************************************)
\* an exception nobody catches ends the process with a traceback
Crash(e, site) ==
    /\ pc' = "crashed"
    /\ exc' = [kind |-> e, site |-> site]
    /\ UNCHANGED <<album_id, caller, ret, calls, fallbacks>>

\* download_album(id) is entered
CallAlbum(id, who) ==
    /\ pc' = "album_get"
    /\ album_id' = id
    /\ caller' = who
    /\ ret' = Unset
    /\ calls' = Append(calls, id)
    /\ fallbacks' = IF who = "fallback" THEN fallbacks + 1 ELSE fallbacks
    /\ exc' = exc

\* an exception reaches the try block of download_account
RaiseInAccount(e, site) ==
    IF AccountCatches(e)
    THEN CallAlbum(FallbackId(account_name), "fallback")
    ELSE Crash(e, site)

\* an exception reaches the try block of download_album
RaiseInAlbum(e, site) ==
    IF AlbumCatches(e)
    THEN /\ pc' = "album_ret"
         /\ ret' = NoneValue
         /\ UNCHANGED <<exc, album_id, caller, calls, fallbacks>>
    ELSE IF caller = "account"
         THEN RaiseInAccount(e, site)
         ELSE Crash(e, site)

(***************************************************************************)
(* The process: __main__ (lines 146-154).                                  *)
(***************************************************************************)
\* no process is running: "idle" before one starts, "exit" and "crashed"
\* when one has ended
ProcessOver == pc \in {"idle", "exit", "crashed"}

\* the memory of a process that is gone
ProcessReset ==
    /\ args' = <<>> /\ pending' = <<>>
    /\ account_name' = ""
    /\ AlbumReset
    /\ calls' = <<>> /\ fallbacks' = 0
    /\ exc' = NoExc
    /\ client_error' = "none"
    /\ AcctReset
    /\ SaveReset

\* the process that ended is gone: nothing but the disk is kept
Exit ==
    /\ pc \in {"exit", "crashed"}
    /\ pc' = "idle"
    /\ ProcessReset
    /\ UNCHANGED <<world, disk, clean>>

\* python downloader.py id ...: args is not empty, iterate set(args)
StartArgs ==
    /\ pc = "idle"
    /\ \E argv \in ArgLists :
        /\ args' = argv
        /\ pending' \in IterationOrders(argv)
    /\ pc' = "main_loop"
    /\ UNCHANGED <<world, disk, exc, acctv, album_id, caller, ret, savev, loophist, calls,
                   album_results, clean, client_error, fallbacks>>

\* for arg in set(args): download_album(arg); args is not read again
MainNextArg ==
    /\ pc = "main_loop"
    /\ pending # <<>>
    /\ CallAlbum(Head(pending), "main")
    /\ pending' = Tail(pending)
    /\ args' = <<>>
    /\ UNCHANGED <<world, disk, acctv, savev, loophist, album_results, clean, client_error>>

\* download_album returned to the for loop of __main__, which drops the value
MainAlbumReturned ==
    /\ pc = "album_ret"
    /\ caller = "main"
    /\ pc' = "main_loop"
    /\ AlbumReset
    /\ SaveReset
    /\ UNCHANGED <<world, disk, exc, mainv, acctv, calls, album_results, clean,
                   client_error, fallbacks>>

\* the for loop of __main__ is over
MainDone ==
    /\ pc = "main_loop"
    /\ pending = <<>>
    /\ pc' = "exit"
    /\ UNCHANGED <<world, disk, exc, mainv, acctv, album_id, caller, ret, savev,
                   loophist, calls, album_results, clean, client_error, fallbacks>>

\* python downloader.py: download_account(input(...))
StartAccount ==
    /\ pc = "idle"
    /\ \E name \in Names : account_name' = name
    /\ pc' = "acct_list"
    /\ UNCHANGED <<world, disk, exc, mainv, albums, pi, answer, to_download, di,
                   acc_downloaded, acc_failed, acc_skipped, acc_bytes, acct_ret, list_error,
                   album_id, caller, ret, savev, loophist, calls, album_results, clean,
                   client_error, fallbacks>>

(***************************************************************************)
(* download_account (lines 110-143).                                       *)
(***************************************************************************)
\* albums = __client.get_account_albums(account_name) returns
ListAlbums ==
    /\ pc = "acct_list"
    /\ \E listing \in Listings : albums' = listing
    /\ pi' = 1
    /\ to_download' = <<>>
    /\ acc_downloaded' = 0 /\ acc_failed' = 0 /\ acc_skipped' = 0 /\ acc_bytes' = 0
    /\ pc' = "acct_prompt"
    /\ client_error' = "none"
    /\ UNCHANGED <<world, disk, exc, mainv, list_error, account_name, answer,
                   di, acct_ret, album_id, caller,
                   ret, savev, loophist, calls, album_results, clean, fallbacks>>

\* get_account_albums raises
ListAlbumsRaises ==
    /\ pc = "acct_list"
    /\ \E e \in ClientErrors :
        /\ client_error' = e
        /\ list_error' = e
        /\ RaiseInAccount(e, "get_account_albums")
    /\ UNCHANGED <<world, disk, mainv, account_name, albums, pi, answer, to_download, di,
                   acc_downloaded, acc_failed, acc_skipped, acc_bytes, acct_ret, savev,
                   loophist, album_results, clean>>

\* one input(...) of the prompt loop
Prompt ==
    /\ pc = "acct_prompt"
    /\ pi <= Len(albums)
    /\ \E a \in Answers :
        /\ answer' = a
        /\ to_download' = IF Lower(a) = "y" THEN Append(to_download, albums[pi])
                          ELSE to_download
    /\ pi' = pi + 1
    /\ UNCHANGED <<world, disk, pc, exc, mainv, list_error, account_name, albums, di,
                   acc_downloaded,
                   acc_failed, acc_skipped, acc_bytes, acct_ret, album_id, caller, ret,
                   savev, loophist, calls, album_results, clean, client_error, fallbacks>>

\* the ids are written to 'last_downloaded' (a file the program never reads)
\* and the download loop starts; prompt is not read again
WriteLastDownloaded ==
    /\ pc = "acct_prompt"
    /\ pi > Len(albums)
    /\ di' = 1
    /\ answer' = ""
    /\ pc' = "acct_loop"
    /\ UNCHANGED <<world, disk, exc, mainv, list_error, account_name,
                   albums, pi, to_download,
                   acc_downloaded, acc_failed, acc_skipped, acc_bytes, acct_ret, album_id,
                   caller, ret, savev, loophist, calls, album_results, clean, client_error,
                   fallbacks>>

\* open('last_downloaded', 'wt') or the write raises OSError
WriteLastDownloadedFails ==
    /\ pc = "acct_prompt"
    /\ pi > Len(albums)
    /\ RaiseInAccount("OSError", "last_downloaded")
    /\ UNCHANGED <<world, disk, mainv, acctv, savev, loophist, album_results, clean,
                   client_error>>

\* for album in to_download: result = download_album(album.id)
AcctNextAlbum ==
    /\ pc = "acct_loop"
    /\ di <= Len(to_download)
    /\ CallAlbum(to_download[di], "account")
    /\ UNCHANGED <<world, disk, mainv, acctv, savev, loophist, album_results, clean,
                   client_error>>

\* num_downloaded += result.downloaded ... total_bytes += result.total_bytes
AcctAccumulate ==
    /\ pc = "album_ret"
    /\ caller = "account"
    /\ ret.kind = "Result"
    /\ acc_downloaded' = acc_downloaded + ret.downloaded
    /\ acc_failed' = acc_failed + ret.failed
    /\ acc_skipped' = acc_skipped + ret.skipped
    /\ acc_bytes' = acc_bytes + ret.total_bytes
    /\ album_results' = Append(album_results, ret)
    /\ di' = di + 1
    /\ pc' = "acct_loop"
    /\ AlbumReset
    /\ SaveReset
    /\ UNCHANGED <<world, disk, exc, mainv, list_error, account_name, answer,
                   albums, pi, to_download,
                   acct_ret, calls, clean, client_error, fallbacks>>

\* result is None: result.downloaded raises AttributeError
AcctAccumulateNone ==
    /\ pc = "album_ret"
    /\ caller = "account"
    /\ ret.kind = "None"
    /\ RaiseInAccount("AttributeError", "result.downloaded")
    /\ UNCHANGED <<world, disk, mainv, acctv, savev, loophist, album_results, clean,
                   client_error>>

\* the loop over to_download is over: return Result(...)
AcctReturn ==
    /\ pc = "acct_loop"
    /\ di > Len(to_download)
    /\ acct_ret' = AccountResult
    /\ pc' = "exit"
    /\ UNCHANGED <<world, disk, exc, mainv, list_error, account_name, answer,
                   albums, pi, to_download, di,
                   acc_downloaded, acc_failed, acc_skipped, acc_bytes, album_id, caller,
                   ret, savev, loophist, calls, album_results, clean, client_error, fallbacks>>

\* except ImgurClientError: return download_album(account_name)
FallbackReturn ==
    /\ pc = "album_ret"
    /\ caller = "fallback"
    /\ acct_ret' = ret
    /\ pc' = "exit"
    /\ SaveReset
    /\ UNCHANGED <<world, disk, exc, mainv, list_error, account_name, answer,
                   albums, pi, to_download, di,
                   acc_downloaded, acc_failed, acc_skipped, acc_bytes, album_id, caller,
                   ret, calls, album_results, clean, client_error, fallbacks>>

(***************************************************************************)
(* download_album (lines 84-92).                                           *)
(***************************************************************************)
\* album.images of the album with this id
AlbumImages(id) == IF id = "a2" THEN images2 ELSE images

\* the remote may answer a GET of the link in this way
MayBe(link, f) == fate[link] \in {"any", f}

\* the folder __save_images works in
Folder == FolderName(album_id)

\* album = __client.get_album(album_id) returns; the links are resolved
GetAlbum ==
    /\ pc = "album_get"
    /\ links' = GetImageLinks(AlbumImages(album_id))
    /\ pc' = "save_mkdir"
    /\ client_error' = "none"
    /\ UNCHANGED <<world, disk, exc, mainv, acctv, album_id, caller, ret, idx,
                   num_downloaded, num_failed, num_skipped, total_bytes, byte_size,
                   chunk_no, loophist, calls, album_results, clean, fallbacks>>

\* get_album raises
GetAlbumRaises ==
    /\ pc = "album_get"
    /\ \E e \in ClientErrors :
        /\ client_error' = e
        /\ RaiseInAlbum(e, "get_album")
    /\ UNCHANGED <<world, disk, mainv, acctv, savev, loophist, album_results, clean>>

(***************************************************************************)
(* __save_images (lines 38-67).                                            *)
(***************************************************************************)
\* os.makedirs(path, exist_ok=True); the counters start at 0
MakeDirs ==
    /\ pc = "save_mkdir"
    /\ dirs' = dirs \cup {Folder}
    /\ idx' = 1
    /\ num_downloaded' = 0 /\ num_failed' = 0 /\ num_skipped' = 0 /\ total_bytes' = 0
    /\ gets' = 0
    /\ prev_clean' = clean[Folder]
    /\ pc' = "save_loop"
    /\ UNCHANGED <<world, fs, exc, mainv, acctv, album_id, caller, ret, links, byte_size,
                   chunk_no, calls, album_results, clean, client_error, fallbacks>>

\* os.makedirs raises OSError
MakeDirsFails ==
    /\ pc = "save_mkdir"
    /\ RaiseInAlbum("OSError", "makedirs")
    /\ UNCHANGED <<world, disk, mainv, acctv, savev, loophist, album_results, clean,
                   client_error>>

\* the loop is at an item
AtItem == pc = "save_loop" /\ idx <= Len(links)

\* local_path = path + '/' + os.path.basename(link)
LocalName == Basename(links[idx])

\* a loop that opens local_path before it sends the GET
FileOpenedBeforeGet(folder, local) == [fs EXCEPT ![folder][local] = "partial"]

\* requests.get and raise_for_status come before open(local_path, 'wb'), and
\* an open that raises creates nothing: the files are as they were
FilesAfterFailedFetch(folder, local) == fs

\* the except clause of the loop, or the exception leaves __save_images
ItemRaises(e) ==
    IF SaveCatches(e)
    THEN /\ num_failed' = CountFailed(num_failed)
         /\ idx' = idx + 1
         /\ pc' = "save_loop"
         /\ UNCHANGED <<exc, album_id, caller, ret, calls, fallbacks>>
    ELSE /\ RaiseInAlbum(e, "item")
         /\ UNCHANGED <<num_failed, idx>>

\* if os.path.isfile(local_path): num_skipped += 1; continue
SkipItem ==
    /\ AtItem
    /\ IsFile(Folder, LocalName)
    /\ num_skipped' = CountSkipped(num_skipped)
    /\ idx' = idx + 1
    /\ UNCHANGED <<world, disk, pc, exc, mainv, acctv, album_id, caller, ret, links,
                   num_downloaded, num_failed, total_bytes, byte_size, chunk_no, calls,
                   album_results, gets, clean, prev_clean, client_error, fallbacks>>

\* requests.get, raise_for_status or open raises: nothing was written
FetchFails ==
    /\ AtItem
    /\ ~IsFile(Folder, LocalName)
    /\ MayBe(links[idx], "refused")
    /\ \E e \in EarlyItemErrors : ItemRaises(e)
    /\ gets' = gets + 1
    /\ fs' = FilesAfterFailedFetch(Folder, LocalName)
    /\ UNCHANGED <<world, dirs, mainv, acctv, links, num_downloaded, num_skipped,
                   total_bytes, byte_size, chunk_no, album_results, clean, prev_clean,
                   client_error>>

\* the GET answers 2xx and open(local_path, 'wb') creates the empty file
OpenFile ==
    /\ AtItem
    /\ ~IsFile(Folder, LocalName)
    /\ MayBe(links[idx], "ok") \/ MayBe(links[idx], "cut")
    /\ gets' = gets + 1
    /\ fs' = [fs EXCEPT ![Folder][LocalName] = "partial"]
    /\ byte_size' = 0
    /\ chunk_no' = 1
    /\ pc' = "save_write"
    /\ UNCHANGED <<world, dirs, exc, mainv, acctv, album_id, caller, ret, links, idx,
                   num_downloaded, num_failed, num_skipped, total_bytes, calls,
                   album_results, clean, prev_clean, client_error, fallbacks>>

\* byte_size += file.write(chunk)
WriteChunk ==
    /\ pc = "save_write"
    /\ chunk_no <= Len(Body(links[idx]))
    /\ MayBe(links[idx], "ok") \/ chunk_no < Len(Body(links[idx]))
    /\ byte_size' = byte_size + Body(links[idx])[chunk_no]
    /\ chunk_no' = chunk_no + 1
    /\ UNCHANGED <<world, disk, pc, exc, mainv, acctv, album_id, caller, ret, links, idx,
                   num_downloaded, num_failed, num_skipped, total_bytes, calls,
                   album_results, loophist, clean, client_error, fallbacks>>

\* iter_content or file.write raises before the body is complete: the with
\* statement closes the file, which stays on disk as it is
StreamFails ==
    /\ pc = "save_write"
    /\ chunk_no <= Len(Body(links[idx]))
    /\ MayBe(links[idx], "cut")
    /\ \E e \in StreamErrors : ItemRaises(e)
    /\ byte_size' = 0
    /\ chunk_no' = 1
    /\ UNCHANGED <<world, disk, mainv, acctv, links, num_downloaded, num_skipped,
                   total_bytes, gets, album_results, clean, prev_clean, client_error>>

\* the body is written and the file closed: total_bytes += byte_size;
\* num_downloaded += 1
FinishItem ==
    /\ pc = "save_write"
    /\ chunk_no > Len(Body(links[idx]))
    /\ fs' = [fs EXCEPT ![Folder][LocalName] = "complete"]
    /\ total_bytes' = AddBytes(total_bytes, byte_size)
    /\ num_downloaded' = CountDownloaded(num_downloaded)
    /\ idx' = idx + 1
    /\ byte_size' = 0
    /\ chunk_no' = 1
    /\ pc' = "save_loop"
    /\ UNCHANGED <<world, dirs, exc, mainv, acctv, album_id, caller, ret, links,
                   num_failed, num_skipped, calls, album_results, gets, clean,
                   prev_clean, client_error, fallbacks>>

\* return Result(num_downloaded, num_failed, num_skipped, total_bytes),
\* which download_album returns as it is
SaveReturn ==
    /\ pc = "save_loop"
    /\ idx > Len(links)
    /\ ret' = Result(num_downloaded, num_failed, num_skipped, total_bytes)
    /\ clean' = [clean EXCEPT ![Folder] = (num_failed = 0)]
    /\ pc' = "album_ret"
    /\ UNCHANGED <<world, disk, exc, mainv, acctv, album_id, caller, savev, loophist,
                   calls, album_results, client_error, fallbacks>>

(***************************************************************************)
(* The process is terminated from outside (a signal, Ctrl-C, power loss)   *)
(* at any point.  No handler of the program runs: `except Exception` does  *)
(* not catch KeyboardInterrupt.  The disk stays as it is.                  *)
(***************************************************************************)
Kill ==
    /\ ~ProcessOver
    /\ pc' = "idle"
    /\ torn' = IF pc = "save_write" THEN <<Folder, LocalName>> ELSE torn
    /\ ProcessReset
    /\ UNCHANGED <<images, images2, fate, disk, clean>>

\* the steps of a started process
Run ==
    \/ MainNextArg
    \/ MainAlbumReturned
    \/ MainDone
    \/ ListAlbums
    \/ ListAlbumsRaises
    \/ Prompt
    \/ WriteLastDownloaded
    \/ WriteLastDownloadedFails
    \/ AcctNextAlbum
    \/ AcctAccumulate
    \/ AcctAccumulateNone
    \/ AcctReturn
    \/ FallbackReturn
    \/ GetAlbum
    \/ GetAlbumRaises
    \/ MakeDirs
    \/ MakeDirsFails
    \/ SkipItem
    \/ FetchFails
    \/ OpenFile
    \/ WriteChunk
    \/ StreamFails
    \/ FinishItem
    \/ SaveReturn

Next ==
    \/ StartArgs
    \/ StartAccount
    \/ Run
    \/ Exit

Spec == Init /\ [][Next]_vars

(***************************************************************************)
(* Process runs that can be terminated from outside.                       *)
(***************************************************************************)
NextInterrupt ==
    \/ Next
    \/ Kill

SpecInterrupt == Init /\ [][NextInterrupt]_vars

(***************************************************************************)
(* One process run on an empty disk, over the wide universe of links, with *)
(* a remote that answers every GET of a link in the same way, and with     *)
(* album "a2" serving the items of album "a1" in some order.               *)
(***************************************************************************)
\* the orderings of a sequence
Orderings(s) ==
    { t \in [DOMAIN s -> Range(s)] :
        \A x \in Range(s) :
            Cardinality({ i \in DOMAIN t : t[i] = x }) = Cardinality({ i \in DOMAIN s : s[i] = x }) }

\* one fixed outcome for every link of the album, "any" for the others
FixedFates(imgs) ==
    { f \in [EffectiveLinks -> Fates \cup {"any"}] :
        \A l \in EffectiveLinks : (f[l] = "any") <=> (l \notin Range(GetImageLinks(imgs))) }

InitWide ==
    /\ images \in SeqsUpTo(WideUniverse, MaxItems)
    /\ images2 \in Orderings(images)
    /\ fate \in FixedFates(images)
    /\ torn = <<>>
    /\ LocalInit

NextOnce ==
    \/ StartArgs
    \/ StartAccount
    \/ Run

SpecWide == InitWide /\ [][NextOnce]_vars

(***************************************************************************)
(* Properties of the fetch loop.                                           *)
(***************************************************************************)
InLoop == pc \in {"save_loop", "save_write"}

Returned == pc = "album_ret" /\ ret.kind = "Result"

\* C1: while the loop runs, the three counters sum to the number of items
\* processed so far; the Result returned has downloaded + failed + skipped
\* equal to the number of items.
C1_CountersSumToItems ==
    /\ InLoop => num_downloaded + num_failed + num_skipped = idx - 1
    /\ Returned => ret.downloaded + ret.failed + ret.skipped = Len(links)

\* a loop over a full-length album returned with a failure and a skip
C1_Witness ==
    /\ Returned
    /\ Len(links) = MaxItems
    /\ ret.failed >= 1
    /\ ret.skipped >= 1

\* C5: at an item whose local path holds a regular file, the step taken
\* counts one skip, advances to the next item, issues no GET and changes
\* neither the disk nor the other counters.
C5_SkipRule ==
    [][ (pc = "save_loop" /\ idx <= Len(links)
            /\ fs[Folder][Basename(links[idx])] # "absent")
        => /\ num_skipped' = num_skipped + 1
           /\ idx' = idx + 1
           /\ pc' = "save_loop"
           /\ gets' = gets
           /\ fs' = fs /\ dirs' = dirs
           /\ num_downloaded' = num_downloaded
           /\ num_failed' = num_failed
           /\ total_bytes' = total_bytes
           /\ links' = links ]_vars

\* an item was skipped over a file left by a failed write, after another
\* item of the same loop was fetched
C5_Witness ==
    /\ pc = "save_loop"
    /\ num_skipped = 1
    /\ gets = 1
    /\ idx = 3
    /\ fs[Folder][Basename(links[2])] = "partial"

\* C6: no step of the loop leaves the loop through an exception; a step
\* that counts a failure counts exactly one and advances to the next item;
\* and the loop returns only after every item was processed.
C6_FailuresStayInLoop ==
    /\ [](Returned => idx = Len(links) + 1)
    /\ [][ (InLoop /\ idx <= Len(links))
           => /\ pc' \in {"save_loop", "save_write"}
              /\ links' = links
              /\ idx' \in {idx, idx + 1}
              /\ num_failed' \in {num_failed, num_failed + 1}
              /\ (idx' = idx + 1 /\ num_downloaded' = num_downloaded
                    /\ num_skipped' = num_skipped)
                 => (num_failed' = num_failed + 1 /\ pc' = "save_loop") ]_vars

\* the second item is being written after the first one failed
C6_Witness ==
    /\ pc = "save_write"
    /\ idx = 2
    /\ num_failed = 1

\* C3: a loop over a folder whose previous loop (same items) finished with
\* failed = 0 returns Result(0, 0, number of items, 0), issues no GET and
\* leaves the disk as it was.
C3_SecondRunSkipsAll ==
    /\ []((Returned /\ prev_clean) =>
            /\ ret = Result(0, 0, Len(links), 0)
            /\ gets = 0)
    /\ [][ (InLoop /\ prev_clean) => (fs' = fs /\ dirs' = dirs) ]_vars

\* a second loop over a full-length album returned
C3_Witness ==
    /\ Returned
    /\ prev_clean
    /\ Len(links) = MaxItems

(***************************************************************************)
(* Properties of download_album and download_account.                      *)
(***************************************************************************)
\* the field-wise sum of a sequence of Results
RECURSIVE SumResults(_)
SumResults(rs) ==
    IF rs = <<>> THEN Result(0, 0, 0, 0)
    ELSE LET h == Head(rs)
             t == SumResults(Tail(rs))
         IN  Result(h.downloaded + t.downloaded, h.failed + t.failed,
                    h.skipped + t.skipped, h.total_bytes + t.total_bytes)

\* download_account ran its own body to the end (no fallback)
AccountReturned == pc = "exit" /\ account_name # "" /\ fallbacks = 0

\* C2: a step that ends an item because writing its body failed leaves no
\* file at the item's local path.
C2_NoFileAfterFailedWrite ==
    [][ (pc = "save_write" /\ pc' = "save_loop" /\ num_failed' = num_failed + 1)
        => fs'[Folder][Basename(links[idx])] = "absent" ]_vars

\* C4: the Result download_account returns is the field-wise sum of the
\* Results of the albums it downloaded.
C4_AccountResultIsSum ==
    AccountReturned => acct_ret = SumResults(album_results)

\* C7: download_album and download_account hand their caller a Result
\* (an unresolved id surfaces as an error, never as a value that is no Result).
C7_ResultOrError ==
    /\ pc = "album_ret" => ret.kind = "Result"
    /\ (pc = "exit" /\ account_name # "") => acct_ret.kind = "Result"

\* C8: after a selected album of an account failed to resolve, the account
\* run is not aborted.
C8_UnresolvedAlbumNotFatal ==
    (account_name # "" /\ list_error = "none" /\ client_error = "NotFound")
        => pc # "crashed"

\* C9: the fallback is taken at most once, always when the listing fails as
\* not found, and only when the listing failed: it is then the only call of
\* download_album, made with the account name before any prompt or download,
\* and download_account returns what that call returned.
C9_FallbackOnListingFailure ==
    /\ fallbacks <= 1
    /\ list_error = "NotFound" => fallbacks = 1
    /\ fallbacks = 1 =>
        /\ list_error # "none"
        /\ calls = <<account_name>>
        /\ albums = <<>> /\ pi = 1 /\ to_download = <<>> /\ album_results = <<>>
    /\ (pc = "exit" /\ fallbacks = 1) => (acct_ret = ret /\ ret.kind # "unset")

\* an account name that is no account was downloaded as an album
C9_Witness ==
    /\ pc = "exit"
    /\ fallbacks = 1
    /\ list_error = "NotFound"
    /\ acct_ret.kind = "Result"
    /\ acct_ret.downloaded >= 1

\* C10: an authentication error of the remote client ends the process with
\* that error.
C10_AuthErrorIsFatal ==
    client_error = "AuthError" => (pc = "crashed" /\ exc.kind = "AuthError")

(***************************************************************************)
(* Resumability (under SpecInterrupt).                                     *)
(***************************************************************************)
\* C11: after a process was terminated while a file was being written, a
\* later run over the same album in which every attempted fetch succeeds
\* (failed = 0) fetches that item again instead of skipping it, so that at
\* the end its local file holds the complete response body.
C11_ResumeAfterTermination ==
    (/\ Returned
     /\ ret.failed = 0
     /\ torn # <<>>
     /\ torn[1] = Folder
     /\ \E i \in DOMAIN links : Basename(links[i]) = torn[2])
    => fs[torn[1]][torn[2]] = "complete"

(***************************************************************************)
(* Link resolution.                                                        *)
(***************************************************************************)
\* the loop has its list of links
HasLinks == pc \in {"save_mkdir", "save_loop", "save_write"}

\* the text of a link after its scheme
AfterScheme(link) == SubSeq(link, 2, Len(link))

\* C12: for an image descriptor with both a generic link and an mp4 link
\* the mp4 link is the effective URL: it is the link handed to the fetch
\* loop, its basename names the local file that is tested and written, and
\* no file is ever named after the generic link; the generic link is the
\* effective URL only of a descriptor without an mp4 link.
C12_Mp4Preferred ==
    /\ HasLinks =>
         /\ Len(links) = Len(AlbumImages(album_id))
         /\ \A i \in DOMAIN links :
              LET im == AlbumImages(album_id)[i]
              IN  /\ im.has_mp4 => /\ AfterScheme(links[i]) = AfterScheme(im.mp4)
                                   /\ Basename(links[i]) = Basename(im.mp4)
                  /\ ~im.has_mp4 => /\ AfterScheme(links[i]) = AfterScheme(im.link)
                                    /\ Basename(links[i]) = Basename(im.link)
    /\ \A f \in Names : \A b \in Basenames :
         fs[f][b] # "absent" =>
            \E i \in DOMAIN images :
                b = Basename(IF images[i].has_mp4 THEN images[i].mp4 ELSE images[i].link)

C12_Witness ==
    /\ pc = "save_loop"
    /\ \E i \in 1..(idx - 1) :
         /\ AlbumImages(album_id)[i].has_mp4
         /\ fs[Folder][Basename(AlbumImages(album_id)[i].mp4)] = "complete"
         /\ fs[Folder][Basename(AlbumImages(album_id)[i].link)] = "absent"

\* C13: every link handed to the fetch loop has the secure scheme; a
\* resolved link with the insecure scheme is rewritten to the secure one
\* with the rest of the URL unchanged, and a link that is already secure
\* is handed over unchanged.
C13_SchemeNormalised ==
    HasLinks =>
        \A i \in DOMAIN links :
            LET resolved == PreferredLink(AlbumImages(album_id)[i])
            IN  /\ links[i][1] = "https:"
                /\ AfterScheme(links[i]) = AfterScheme(resolved)
                /\ resolved[1] = "https:" => links[i] = resolved

(***************************************************************************)
(* Byte accounting.                                                        *)
(***************************************************************************)
RECURSIVE SumSeq(_)
SumSeq(s) == IF s = <<>> THEN 0 ELSE Head(s) + SumSeq(Tail(s))

\* the number of bytes of the body served for a link
BodySize(link) == SumSeq(Body(link))

\* C14: total_bytes is the sum of the bytes written for exactly the items
\* counted in downloaded: it is 0 when the loop starts, a step that counts a
\* download adds the bytes written for that item (its whole body), every
\* other step of the loop (a skip, a failure, also one after some chunks
\* were written) leaves it unchanged, and the Result carries it as it is.
C14_TotalBytes ==
    /\ []((pc = "save_loop" /\ idx = 1) => total_bytes = 0)
    /\ []((InLoop /\ num_downloaded = 0) => total_bytes = 0)
    /\ [](Returned => (ret.total_bytes = total_bytes /\ ret.downloaded = num_downloaded))
    /\ [][ InLoop =>
             IF num_downloaded' = num_downloaded + 1
             THEN /\ byte_size = BodySize(links[idx])
                  /\ total_bytes' = total_bytes + byte_size
             ELSE total_bytes' = total_bytes ]_vars

C14_Witness ==
    /\ pc = "save_loop"
    /\ idx = 3
    /\ num_downloaded = 1
    /\ num_failed = 1
    /\ total_bytes = BodySize(links[2])
    /\ fs[Folder][Basename(links[1])] = "partial"

(***************************************************************************)
(* Frame conditions on the disk.                                           *)
(***************************************************************************)
\* the file the current item is writing
BeingWritten(f, b) == pc = "save_write" /\ f = Folder /\ b = Basename(links[idx])

\* C15: a regular file that exists at a local path is never reopened for
\* writing, truncated, overwritten or deleted by a later item or a later
\* run: open(local_path, 'wb') happens only where no file exists, every
\* file but the one being written keeps its state at every step, the file
\* being written is not removed, and no folder is ever deleted.
C15_FilesNeverMutated ==
    [][ /\ dirs \subseteq dirs'
        /\ (pc = "save_loop" /\ pc' = "save_write")
              => fs[Folder][Basename(links[idx])] = "absent"
        /\ \A f \in Names : \A b \in Basenames :
             fs[f][b] # "absent" =>
                IF BeingWritten(f, b)
                THEN fs'[f][b] \in {"partial", "complete"}
                ELSE fs'[f][b] = fs[f][b] ]_vars

C15_Witness ==
    /\ pc = "save_loop"
    /\ prev_clean
    /\ idx = 2
    /\ num_skipped = 1
    /\ fs[Folder][Basename(links[1])] = "complete"

\* C16: when creating the destination folder fails, the run of that album
\* is aborted and the error propagates to the caller: nobody catches it,
\* download_album returns nothing (in particular not the None of a missing
\* album), no GET is issued, no item is counted and the disk is unchanged.
C16_MkdirFailureAborts ==
    [][ (pc = "save_mkdir" /\ pc' # "save_loop") =>
            /\ pc' = "crashed"
            /\ exc' = [kind |-> "OSError", site |-> "makedirs"]
            /\ ret' = Unset
            /\ gets' = 0
            /\ num_downloaded' = 0 /\ num_failed' = 0 /\ num_skipped' = 0
            /\ idx' = 1
            /\ calls' = calls
            /\ fs' = fs /\ dirs' = dirs ]_vars

C16_Witness ==
    /\ pc = "crashed"
    /\ exc = [kind |-> "OSError", site |-> "makedirs"]
    /\ caller = "account"
    /\ Len(links) = MaxItems
    /\ Folder \notin dirs

(***************************************************************************)
(* The account run.                                                        *)
(***************************************************************************)
\* download_account got its listing (no fallback to an album)
AccountRun == account_name # "" /\ fallbacks = 0 /\ list_error = "none"

\* s is an initial part of t
IsPrefix(s, t) == Len(s) <= Len(t) /\ s = SubSeq(t, 1, Len(s))

\* C17: in the account run the user is prompted once per listed album, in
\* listing order and before any download starts; an album is selected
\* exactly when its answer is 'y' or 'Y'; download_album is called only for
\* selected albums, once each and in listing order; and when the run is
\* over, with no rate limit and no disk error having ended it, every
\* selected album has been downloaded.
C17_PromptThenDownload ==
    /\ []((AccountRun /\ pc = "acct_prompt") => calls = <<>>)
    /\ [][ (pc = "acct_prompt" /\ pi <= Len(albums)) =>
              /\ pc' = "acct_prompt"
              /\ pi' = pi + 1
              /\ albums' = albums
              /\ to_download' = IF answer' \in {"y", "Y"}
                                THEN Append(to_download, albums[pi])
                                ELSE to_download ]_vars
    /\ [](AccountRun => IsPrefix(calls, to_download))
    /\ []((AccountRun /\ pc \in {"exit", "crashed"} /\ exc.kind \in {"none", "AttributeError"})
            => calls = to_download)

\* the parts of C17 that are about the prompts and the order of the calls
C17_SelectionOnly ==
    /\ []((AccountRun /\ pc = "acct_prompt") => calls = <<>>)
    /\ [][ (pc = "acct_prompt" /\ pi <= Len(albums)) =>
              /\ pc' = "acct_prompt"
              /\ pi' = pi + 1
              /\ albums' = albums
              /\ to_download' = IF answer' \in {"y", "Y"}
                                THEN Append(to_download, albums[pi])
                                ELSE to_download ]_vars
    /\ [](AccountRun => IsPrefix(calls, to_download))
    /\ []((AccountRun /\ pc = "exit") => calls = to_download)

(***************************************************************************)
(* Order of the items (under SpecWide: albums "a1" and "a2" hold the same  *)
(* items in two orders, both folders start empty, and the remote answers   *)
(* every GET of a link in the same way).                                   *)
(***************************************************************************)
\* an account run that downloaded both albums has returned
BothAlbumsDone ==
    /\ pc = "exit"
    /\ account_name # ""
    /\ fallbacks = 0
    /\ Len(album_results) = 2

\* C18: the order of the items has no effect on the outcome: the two
\* orderings of the same items, run from the same directory state with the
\* same outcome per link, give the same Result and leave the same files,
\* also when two items have the same basename.
C18_OrderIrrelevant ==
    BothAlbumsDone =>
        /\ album_results[1] = album_results[2]
        /\ fs["a1"] = fs["a2"]

\* two items of the album have the same basename only if they are the same link
NamesTellLinksApart ==
    \A i, j \in DOMAIN images :
        LET l == GetImageLinks(images)
        IN  Basename(l[i]) = Basename(l[j]) => l[i] = l[j]

\* the order has no effect when no two different links share a basename
C18_OrderIrrelevantForDistinctNames ==
    (BothAlbumsDone /\ NamesTellLinksApart) =>
        /\ album_results[1] = album_results[2]
        /\ fs["a1"] = fs["a2"]

MainRun == account_name = "" /\ pc # "idle"

NoRepeat(s) == \A i, j \in DOMAIN s : i # j => s[i] # s[j]

\* C20: with album ids on the command line, the ids iterated are those of
\* args, each distinct id once however often it is repeated; download_album
\* is called with them one after the other, so that calls followed by the
\* ids still pending is the same repeat-free sequence during the whole run;
\* a call that returns None because the id does not resolve is followed by
\* the next id; and a run that reaches its end has called every id.
C20_EachIdOnce ==
    /\ []((pc = "main_loop" /\ args # <<>>) =>
             (calls = <<>> /\ Range(pending) = Range(args)))
    /\ [](MainRun => NoRepeat(calls \o pending))
    /\ []((MainRun /\ pc = "exit") => pending = <<>>)
    /\ [][ /\ (MainRun /\ ~ProcessOver) => calls' \o pending' = calls \o pending
           /\ (pc = "main_loop" /\ pending # <<>>) =>
                 (pc' = "album_get" /\ album_id' = Head(pending)
                  /\ calls' = Append(calls, Head(pending)))
           /\ (MainRun /\ pc = "album_ret" /\ ret.kind = "None") =>
                 (pc' = "main_loop" /\ pending' = pending) ]_vars

\* the first id did not resolve and download_album is entered for the second
C20_Witness ==
    /\ MainRun
    /\ pc = "album_get"
    /\ Len(calls) = 2
    /\ client_error = "NotFound"
    /\ pending = <<>>

====
